---- MODULE Spec2Model ----
(***************************************************************************)
(* ESM-Scan: esmscan.py, the mutation-scoring run started by the notebook   *)
(* cell esm_userInterface.py.                                               *)
(*                                                                          *)
(* Strings are sequences of one-character strings, so that split(","),      *)
(* str(), int(), indexing and slicing are computed and not assumed.         *)
(* Scores are integers: the external model is a fixed function of the       *)
(* (masked) token sequence, the row and the vocabulary index.               *)
(***************************************************************************)
EXTENDS Integers, Sequences, FiniteSets, TLC

\* ------------------------------------------------------------------ bounds

\* longest sequence of a scoring run
MaxLen == 3

\* most comma-separated entries of a user-supplied --dms-mutation
MaxMut == 2

\* longest sequence of an enumeration-only run (positions of two digits)
GenMaxLen == 10

\* --offset-idx, default
offset_idx == 1

\* ------------------------------------------------------- python primitives

Digits == <<"0", "1", "2", "3", "4", "5", "6", "7", "8", "9">>

RECURSIVE NatToStr(_)
NatToStr(n) ==
    IF n < 10 THEN <<Digits[n + 1]>>
    ELSE NatToStr(n \div 10) \o <<Digits[(n % 10) + 1]>>

\* str(n) of an int
str(n) == IF n < 0 THEN <<"-">> \o NatToStr(-n) ELSE NatToStr(n)

IsDigit(c) == \E d \in 1..10 : Digits[d] = c

DigitVal(c) == (CHOOSE d \in 1..10 : Digits[d] = c) - 1

RECURSIVE DigitsValue(_)
DigitsValue(s) ==
    IF s = <<>> THEN 0
    ELSE 10 * DigitsValue(SubSeq(s, 1, Len(s) - 1)) + DigitVal(s[Len(s)])

\* int(s) of a str: an optional sign and at least one digit, else ValueError
\* (whitespace and underscores, which int() also takes, are not among the
\* characters of the inputs)
int(s) ==
    LET signed == s # <<>> /\ s[1] \in {"-", "+"}
        body == IF signed THEN Tail(s) ELSE s
    IN  IF body = <<>> \/ \E k \in 1..Len(body) : ~IsDigit(body[k])
        THEN [ok |-> FALSE, val |-> 0]
        ELSE [ok |-> TRUE,
              val |-> IF signed /\ s[1] = "-" THEN -DigitsValue(body)
                      ELSE DigitsValue(body)]

\* s[idx] is defined (no IndexError) for -len(s) <= idx < len(s)
PyIndexOK(s, idx) == idx >= -Len(s) /\ idx < Len(s)

\* s[idx], a negative idx counting from the end
PyIndex(s, idx) == IF idx >= 0 THEN s[idx + 1] ELSE s[Len(s) + idx + 1]

\* a slice bound clamped as python clamps it
PyBound(s, k) ==
    IF k < 0 THEN (IF Len(s) + k < 0 THEN 0 ELSE Len(s) + k)
    ELSE (IF k > Len(s) THEN Len(s) ELSE k)

\* s[:k]
PyPrefix(s, k) == SubSeq(s, 1, PyBound(s, k))

\* s[k:]
PySuffix(s, k) == SubSeq(s, PyBound(s, k) + 1, Len(s))

\* s[1:-1]
PyInner(s) ==
    IF PyBound(s, -1) < PyBound(s, 1) THEN <<>>
    ELSE SubSeq(s, PyBound(s, 1) + 1, PyBound(s, -1))

RECURSIVE split(_)
\* text.split(","): always at least one entry
split(text) ==
    IF \A k \in 1..Len(text) : text[k] # "," THEN <<text>>
    ELSE LET k == CHOOSE j \in 1..Len(text) :
                      text[j] = "," /\ \A h \in 1..(j - 1) : text[h] # ","
         IN  <<SubSeq(text, 1, k - 1)>> \o split(SubSeq(text, k + 1, Len(text)))

RECURSIVE Join(_)
Join(es) ==
    IF Len(es) = 1 THEN es[1] ELSE es[1] \o <<",">> \o Join(Tail(es))

RECURSIVE Sum(_)
Sum(s) == IF s = <<>> THEN 0 ELSE s[1] + Sum(Tail(s))

\* ------------------------------------------------------ mutation enumerator

aas == <<"A", "C", "D", "E", "F", "G", "H", "I", "K", "L",
         "M", "N", "P", "Q", "R", "S", "T", "V", "W", "Y">>

header == <<"m", "u", "t", "a", "n", "t">>

\* the inner loop, for aa in aas, of position i (0-based)
write_position(seq, i) ==
    [j \in 1..Len(aas) |-> <<seq[i + 1]>> \o str(i + 1) \o <<aas[j]>>]

\* a plausible slip: the no-op label, aa = sequence[i], left out
write_position_skip_wt(seq, i) ==
    SelectSeq(write_position(seq, i), LAMBDA l : l[Len(l)] # seq[i + 1])

\* the lines of one position
position_lines(seq, i) == write_position(seq, i)

RECURSIVE write_positions(_, _)
\* the outer loop, for i in range(n)
write_positions(seq, n) ==
    IF n = 0 THEN <<>>
    ELSE write_positions(seq, n - 1) \o position_lines(seq, n - 1)

\* the lines of the file generate_all_mutations writes
generate_all_mutations(seq) == <<header>> \o write_positions(seq, Len(seq))

\* the lines of the file generate_user_mutations writes
generate_user_mutations(mutation) == <<header>> \o split(mutation)

\* pd.read_csv of a one-column file: the first line names the column, blank
\* lines are skipped
read_csv(lines) == SelectSeq(Tail(lines), LAMBDA l : l # <<>>)

\* --------------------------------------------------- sequence model adapter

\* model locations: the notebook's default (ESM-1b alphabet: begin and end
\* markers), an ESM-1 model (begin marker only) and the MSA Transformer
ESM1B == "/content/esm1b_t33_650M_UR50S.pt"

ESM1 == "esm1_t6_43M_UR50S"

MSA == "esm_msa1_t12_100M_UR50S"

\* isinstance(model, MSATransformer)
is_msa(loc) == loc = MSA

\* alphabet.append_eos of the loaded model's alphabet
append_eos(loc) == loc = ESM1B

\* alphabet.all_toks
all_toks == <<"<cls>", "<pad>", "<eos>", "<unk>",
              "L", "A", "G", "V", "S", "E", "R", "T", "I", "D", "P", "K", "Q",
              "N", "F", "Y", "M", "H", "W", "C", "X", "B", "U", "Z", "O", ".",
              "-", "<null_1>", "<mask>">>

\* alphabet.get_idx(tok): the index of tok, unk_idx for an unknown one
get_idx(tok) ==
    IF \E k \in 1..Len(all_toks) : all_toks[k] = tok
    THEN (CHOOSE k \in 1..Len(all_toks) : all_toks[k] = tok) - 1
    ELSE (CHOOSE k \in 1..Len(all_toks) : all_toks[k] = "<unk>") - 1

mask_idx == get_idx("<mask>")

\* batch_converter([("protein1", seq)]): batch_tokens[0]
batch_converter(seq, loc) ==
    <<get_idx("<cls>")>> \o [k \in 1..Len(seq) |-> get_idx(seq[k])]
        \o (IF append_eos(loc) THEN <<get_idx("<eos>")>> ELSE <<>>)

\* batch_tokens.clone() with token i (0-based) set to mask_idx; i = -1: no mask
masked(batch_tokens, i) ==
    IF i < 0 THEN batch_tokens
    ELSE [batch_tokens EXCEPT ![i + 1] = mask_idx]

RECURSIVE TokSum(_)
TokSum(toks) ==
    IF toks = <<>> THEN 0 ELSE Len(toks) * toks[Len(toks)] + TokSum(SubSeq(toks, 1, Len(toks) - 1))

ModelSeed(loc) == CASE loc = ESM1B -> 11 [] loc = ESM1 -> 29 [] OTHER -> 47

\* torch.log_softmax(model(tokens)["logits"], dim=-1)[0, i, v]: the frozen
\* model is a pure function of its input tokens
log_softmax(loc, toks, i, v) ==
    -(1 + ((ModelSeed(loc) + 7 * TokSum(toks) + 3 * i + 5 * v) % 101))

\* token_probs[0, r, v]: row r of the cached tensor, whose rows name the
\* forward pass they come from; a negative r counts from the end
read_probs(loc, token_probs, passes, r, v) ==
    LET src == PyIndex(token_probs, r)
    IN  log_softmax(loc, passes[src.pass].tokens, src.row, v)

\* ------------------------------------------------------- scoring strategies

NoError == "none"

WildtypeMismatch == "AssertionError: The listed wildtype does not match the provided sequence"

MSAStrategy == "AssertionError: MSA Transformer only supports masked marginal strategy"

\* wt, idx, mt = row[0], int(row[1:-1]) - offset_idx, row[-1]
parse_row(row, offset) ==
    LET n == int(PyInner(row))
    IN  [ok |-> n.ok, wt |-> PyIndex(row, 0), idx |-> n.val - offset,
         mt |-> PyIndex(row, -1)]

\* what follows the parse in label_row and compute_pppl:
\* assert sequence[idx] == wt
check_wildtype(p, seq) ==
    IF ~p.ok THEN "ValueError"
    ELSE IF ~PyIndexOK(seq, p.idx) THEN "IndexError"
    ELSE IF PyIndex(seq, p.idx) # p.wt THEN WildtypeMismatch
    ELSE NoError

label_row(row, seq, token_probs, passes, loc, offset) ==
    LET p == parse_row(row, offset)
        e == check_wildtype(p, seq)
    IN  IF e # NoError THEN [err |-> e, score |-> 0]
        ELSE IF ~PyIndexOK(token_probs, 1 + p.idx)
        THEN [err |-> "IndexError", score |-> 0]
        ELSE [err |-> NoError,
              score |-> read_probs(loc, token_probs, passes, 1 + p.idx, get_idx(p.mt))
                        - read_probs(loc, token_probs, passes, 1 + p.idx, get_idx(p.wt))]

\* for i in range(1, len(sequence) - 1), 0-based token indices in order
pppl_range(seq) == [k \in 1..(IF Len(seq) > 2 THEN Len(seq) - 2 ELSE 0) |-> k]

\* sequence[:idx] + mt + sequence[(idx + 1):]
substitute(seq, idx, mt) == PyPrefix(seq, idx) \o <<mt>> \o PySuffix(seq, idx + 1)

compute_pppl(row, seq, loc, offset) ==
    LET p == parse_row(row, offset)
        e == check_wildtype(p, seq)
    IN  IF e # NoError THEN [err |-> e, score |-> 0, passes |-> <<>>]
        ELSE LET mutated == substitute(seq, p.idx, p.mt)
                 batch_tokens == batch_converter(mutated, loc)
                 rng == pppl_range(mutated)
                 log_probs == [k \in 1..Len(rng) |->
                                  log_softmax(loc, masked(batch_tokens, rng[k]), rng[k],
                                              get_idx(mutated[rng[k] + 1]))]
             IN  [err |-> NoError, score |-> Sum(log_probs),
                  passes |-> [k \in 1..Len(rng) |->
                                 [tokens |-> masked(batch_tokens, rng[k]),
                                  mask |-> rng[k]]]]

\* ---------------------------------------------------------- result assembler

\* a plausible slip: the column filled first (order="F")
reshape_column_major(values, rows, cols) ==
    [r \in 1..rows |-> [c \in 1..cols |-> values[rows * (c - 1) + r]]]

\* np.array(values).reshape(rows, cols), row-major; a size that does not fit
\* is a ValueError
reshape(values, rows, cols) ==
    [r \in 1..rows |-> [c \in 1..cols |-> values[cols * (r - 1) + c]]]

\* df.to_csv(..., index=False): one line per row, the label and one cell per
\* model column
to_csv(labels, cols) ==
    [k \in 1..Len(labels) |->
        <<labels[k]>> \o [m \in 1..Len(cols) |-> str(cols[m][k])]]

\* plot_esm_scan: the list file read back, its first score column reshaped
plot_esm_scan(seq, rows) ==
    LET values == [k \in 1..Len(rows) |-> int(rows[k][2]).val]
    IN  IF Len(values) # Len(seq) * Len(aas)
        THEN [err |-> "ValueError", index |-> <<>>, columns |-> <<>>, d |-> <<>>]
        ELSE [err |-> NoError,
              index |-> [x \in 1..Len(seq) |-> <<seq[x]>> \o str(x)],
              columns |-> aas,
              d |-> reshape(values, Len(seq), Len(aas))]

\* plot_clinvar reads the column named after the notebook's default model
plot_clinvar(locs) ==
    IF \E m \in 1..Len(locs) : locs[m] = ESM1B THEN NoError ELSE "KeyError"

\* ------------------------------------------------------------------ state

VARIABLES
    sequence,          \* args.sequence
    dms_mutation,      \* args.dms_mutation: None (given = FALSE) or a str
    scoring_strategy,  \* args.scoring_strategy
    model_location,    \* args.model_location
    pc,                \* where main stands
    error,             \* the exception that ended the run
    dms_input,         \* the lines of the file args.dms_input
    df,                \* df[args.mutation_col]
    columns,           \* df[model_location], one finished column per model
    col,               \* the column df.apply is filling
    mi,                \* the model of the loop over args.model_location
    batch_tokens,      \* batch_tokens[0] (of the first MSA row for an MSA)
    all_token_probs,   \* the rows the masking loop has collected
    token_probs,       \* the tensor label_row reads
    passes,            \* every forward pass issued so far, in order
    table,             \* <prefix>-res-in-list.csv
    matrix             \* <prefix>-res-in-matrix.csv

vars == <<sequence, dms_mutation, scoring_strategy, model_location, pc, error,
          dms_input, df, columns, col, mi, batch_tokens, all_token_probs,
          token_probs, passes, table, matrix>>

args == <<sequence, dms_mutation, scoring_strategy, model_location>>

\* ----------------------------------------------------------------- inputs

SeqSymbols == {"A", "C"}

SeqsUpTo(n) == UNION {[1..k -> SeqSymbols] : k \in 1..n}

\* label positions: negative, zero, in range, and past the end of a short
\* sequence
Positions == {-1, 0, 1, 2}

\* entries of a user list: labels A<pos>D, an empty entry, a non-numeric one
Entries ==
    {<<"A">> \o str(p) \o <<"D">> : p \in Positions} \cup {<<>>, <<"A", "x", "D">>}

EntryLists == UNION {[1..n -> Entries] : n \in 1..MaxMut}

\* the --dms-mutation strings: the empty string, and lists with at least one
\* entry that is not empty
UserTexts ==
    {Join(es) : es \in {l \in EntryLists :
                            l = << <<>> >> \/ \E k \in 1..Len(l) : l[k] # <<>>}}

\* a user who types all 20 labels of a one-symbol sequence
FullList(seq) == Join(Tail(generate_all_mutations(seq)))

Mutations(seq) ==
    {[given |-> FALSE, text |-> <<>>]}
        \cup {[given |-> TRUE, text |-> t] :
                 t \in UserTexts \cup (IF Len(seq) = 1 THEN {FullList(seq)} ELSE {})}

Strategies == {"wt-marginals", "pseudo-ppl", "masked-marginals"}

ModelLists == {<<ESM1B>>, <<ESM1>>, <<MSA>>, <<ESM1B, MSA>>, <<ESM1, ESM1B>>}

NotWritten == [written |-> FALSE]

InitRun ==
    /\ pc = "start"
    /\ error = NoError
    /\ dms_input = <<>>
    /\ df = <<>>
    /\ columns = <<>>
    /\ col = <<>>
    /\ mi = 1
    /\ batch_tokens = <<>>
    /\ all_token_probs = <<>>
    /\ token_probs = <<>>
    /\ passes = <<>>
    /\ table = NotWritten
    /\ matrix = NotWritten

Init ==
    /\ sequence \in SeqsUpTo(MaxLen)
    /\ dms_mutation \in Mutations(sequence)
    /\ scoring_strategy \in Strategies
    /\ model_location \in ModelLists
    /\ InitRun

\* enumeration only: long sequences, the empty --dms-mutation
InitGen ==
    /\ sequence \in SeqsUpTo(GenMaxLen)
    /\ dms_mutation = [given |-> TRUE, text |-> <<>>]
    /\ scoring_strategy = "wt-marginals"
    /\ model_location = <<ESM1B>>
    /\ InitRun

\* ------------------------------------------------------------------ main

Fail(e) ==
    /\ error' = e
    /\ pc' = "failed"

\* len(args.dms_mutation) == 0, line 252
all_mutants(mutation) == Len(mutation.text) = 0

\* a plausible slip: the matrix for any list whose length fits the reshape
plot_matrix_by_shape(mutation) == Len(split(mutation.text)) % Len(aas) = 0

\* len(args.dms_mutation) == 0, line 349
plot_matrix(mutation) == Len(mutation.text) = 0

\* lines 252-259: len() of None is a TypeError; else the mutant file is
\* written and read back
Start ==
    /\ pc = "start"
    /\ IF ~dms_mutation.given
       THEN /\ Fail("TypeError")
            /\ UNCHANGED <<dms_input, df, mi>>
       ELSE /\ dms_input' = IF all_mutants(dms_mutation)
                            THEN generate_all_mutations(sequence)
                            ELSE generate_user_mutations(dms_mutation.text)
            /\ df' = read_csv(dms_input')
            /\ mi' = 1
            /\ pc' = "load"
            /\ UNCHANGED error
    /\ UNCHANGED <<args, columns, col, batch_tokens, all_token_probs,
                   token_probs, passes, table, matrix>>

\* a plausible slip: the loop over the label positions only, the begin
\* marker left out
mask_range_positions(toks) == [k \in 1..(Len(toks) - 1) |-> k]

\* for i in range(batch_tokens.size(1)) (size(2) for an MSA): the token
\* indices the masking loop visits
mask_range(toks) == [k \in 1..Len(toks) |-> k - 1]

\* lines 263-305, 317, 338: one model loaded, its sequence encoded, and what
\* precedes the first masked pass or the first row. For an MSA Transformer
\* the alignment file is taken to be readable and its first row to be the
\* sequence; the other rows of the alignment are not represented.
LoadModel ==
    /\ pc = "load"
    /\ LET loc == model_location[mi]
           toks == batch_converter(sequence, loc)
       IN  IF is_msa(loc) /\ scoring_strategy # "masked-marginals"
           THEN /\ Fail(MSAStrategy)
                /\ UNCHANGED <<batch_tokens, all_token_probs, token_probs, passes>>
           ELSE /\ batch_tokens' = toks
                /\ all_token_probs' = <<>>
                /\ UNCHANGED error
                /\ IF scoring_strategy = "wt-marginals"
                   THEN /\ passes' = Append(passes,
                                        [model |-> mi, tokens |-> toks, mask |-> -1])
                        /\ token_probs' = [r \in 1..Len(toks) |->
                                              [pass |-> Len(passes) + 1, row |-> r - 1]]
                        /\ pc' = "score"
                   ELSE IF scoring_strategy = "masked-marginals"
                   THEN /\ pc' = "mask"
                        /\ UNCHANGED <<passes, token_probs>>
                   ELSE /\ pc' = "score"
                        /\ UNCHANGED <<passes, token_probs>>
    /\ UNCHANGED <<args, dms_input, df, columns, col, mi, table, matrix>>

\* lines 281-289 and 318-326: one iteration of the masking loop; after the
\* last one the rows are concatenated
MaskPass ==
    /\ pc = "mask"
    /\ LET rng == mask_range(batch_tokens)
           i == rng[Len(all_token_probs) + 1]
           rows == Append(all_token_probs, [pass |-> Len(passes) + 1, row |-> i])
       IN  /\ passes' = Append(passes, [model |-> mi,
                                         tokens |-> masked(batch_tokens, i),
                                         mask |-> i])
           /\ all_token_probs' = rows
           /\ IF Len(rows) = Len(rng)
              THEN /\ token_probs' = rows
                   /\ pc' = "score"
              ELSE UNCHANGED <<token_probs, pc>>
    /\ UNCHANGED <<args, error, dms_input, df, columns, col, mi, batch_tokens,
                   table, matrix>>

\* one row of df.apply: label_row, or compute_pppl with its forward passes
ScoreRow ==
    /\ pc = "score"
    /\ Len(col) < Len(df)
    /\ LET row == df[Len(col) + 1]
           loc == model_location[mi]
           r == IF scoring_strategy = "pseudo-ppl"
                THEN compute_pppl(row, sequence, loc, offset_idx)
                ELSE label_row(row, sequence, token_probs, passes, loc, offset_idx)
                         @@ [passes |-> <<>>]
       IN  IF r.err # NoError
           THEN /\ Fail(r.err)
                /\ UNCHANGED <<col, passes>>
           ELSE /\ col' = Append(col, r.score)
                /\ passes' = passes \o [k \in 1..Len(r.passes) |->
                                           [model |-> mi,
                                            tokens |-> r.passes[k].tokens,
                                            mask |-> r.passes[k].mask]]
                /\ UNCHANGED <<error, pc>>
    /\ UNCHANGED <<args, dms_input, df, columns, mi, batch_tokens,
                   all_token_probs, token_probs, table, matrix>>

\* df[model_location] = ...: the column is assigned, the loop goes on
ColumnDone ==
    /\ pc = "score"
    /\ Len(col) = Len(df)
    /\ columns' = Append(columns, col)
    /\ col' = <<>>
    /\ mi' = mi + 1
    /\ pc' = IF mi < Len(model_location) THEN "load" ELSE "write"
    /\ UNCHANGED <<args, error, dms_input, df, batch_tokens,
                   all_token_probs, token_probs, passes, table, matrix>>

\* lines 346-352: the list is written, then the matrix or the ClinVar graph
Finish ==
    /\ pc = "write"
    /\ LET rows == to_csv(df, columns)
       IN  /\ table' = [written |-> TRUE, columns |-> model_location, rows |-> rows]
           /\ IF plot_matrix(dms_mutation)
              THEN LET m == plot_esm_scan(sequence, rows)
                   IN  IF m.err # NoError
                       THEN /\ Fail(m.err)
                            /\ UNCHANGED matrix
                       ELSE /\ matrix' = [written |-> TRUE, index |-> m.index,
                                          columns |-> m.columns, d |-> m.d]
                            /\ pc' = "done"
                            /\ UNCHANGED error
              ELSE /\ UNCHANGED matrix
                   /\ IF plot_clinvar(model_location) # NoError
                      THEN Fail(plot_clinvar(model_location))
                      ELSE /\ pc' = "done"
                           /\ UNCHANGED error
    /\ UNCHANGED <<args, dms_input, df, columns, col, mi, batch_tokens,
                   all_token_probs, token_probs, passes>>

Next ==
    \/ Start
    \/ LoadModel
    \/ MaskPass
    \/ ScoreRow
    \/ ColumnDone
    \/ Finish

Spec == Init /\ [][Next]_vars

NextGen == Start

SpecGen == InitGen /\ [][NextGen]_vars

\* ------------------------------------------------------- reading the state

\* a user-supplied list: --dms-mutation given and not empty
UserList == dms_mutation.given /\ dms_mutation.text # <<>>

\* the (wt, pos, mt) a label names, read off the label itself
LabelWt(l) == l[1]

LabelPos(l) == int(SubSeq(l, 2, Len(l) - 1))

LabelMt(l) == l[Len(l)]

\* a label of single symbols around a positive integer
WellFormed(l) == Len(l) >= 3 /\ LabelPos(l).ok /\ LabelPos(l).val >= 1

\* S[pos-1] == wt holds of a label: its position is one of the sequence and
\* the symbol there is its wild type
Agrees(l, seq) ==
    /\ WellFormed(l)
    /\ LabelPos(l).val <= Len(seq)
    /\ seq[LabelPos(l).val] = LabelWt(l)

\* the forward passes of model m, in the order issued
passes_of(m) == SelectSeq(passes, LAMBDA p : p.model = m)

\* the scores model m has given so far, one per row from the first
rows_scored(m) ==
    IF m <= Len(columns) THEN columns[m] ELSE IF m = mi THEN col ELSE <<>>

\* the run died in df.apply, and on which row
RowFailed ==
    /\ pc = "failed"
    /\ ~table.written
    /\ error \in {WildtypeMismatch, "IndexError", "ValueError"}

FailedRow == df[Len(col) + 1]

\* ------------------------------------------------------------------ claims

\* C1: generate_all_mutations(S) emits exactly len(S)*20 labels, position
\* major then in alphabet order: the label at index 20*i+j is
\* S[i] + str(i+1) + alphabet[j]; every position i+1 has exactly 20 labels,
\* one per alphabet symbol, the no-op (mutant = S[i]) among them.
C1_AllMutationsPositionMajor ==
    (pc = "load" /\ all_mutants(dms_mutation)) =>
        LET labels == Tail(dms_input)
            L == Len(sequence)
            A == Len(aas)
        IN  /\ dms_input[1] = header
            /\ Len(labels) = L * A
            /\ \A i \in 0..(L - 1) : \A j \in 0..(A - 1) :
                   labels[A * i + j + 1] = <<sequence[i + 1]>> \o str(i + 1) \o <<aas[j + 1]>>
            /\ \A i \in 0..(L - 1) :
                   LET at == {k \in 1..Len(labels) : LabelPos(labels[k]).val = i + 1}
                   IN  /\ Cardinality(at) = A
                       /\ {LabelMt(labels[k]) : k \in at} = {aas[j] : j \in 1..A}
                       /\ \A k \in at : LabelWt(labels[k]) = sequence[i + 1]
                       /\ \E k \in at : LabelMt(labels[k]) = sequence[i + 1]

\* C1 witness: a ten-symbol sequence enumerated, its last label at the
\* two-digit position 10
C1_Witness ==
    /\ pc = "load"
    /\ Len(sequence) = 10
    /\ Len(dms_input) = 201
    /\ dms_input[201] = <<sequence[10], "1", "0", "Y">>

\* C2: scoring a label (wt, pos, mt) fails with the wild-type-mismatch error
\* if and only if S[pos-1] != wt: a label whose position is 0, negative or
\* greater than len(S) fails with that error, and a matching label never
\* fails.
C2_MismatchIffScoringFails ==
    /\ \A m \in 1..Len(model_location) : \A k \in 1..Len(rows_scored(m)) :
           Agrees(df[k], sequence)
    /\ (RowFailed /\ Len(FailedRow) >= 3 /\ LabelPos(FailedRow).ok) =>
           error = WildtypeMismatch /\ ~Agrees(FailedRow, sequence)

\* C3: a user-supplied label that does not parse into (wt, pos, mt), wt and
\* mt single symbols and pos a positive integer, is rejected: no label at
\* position 0 or below, with a non-numeric position, or empty, is given a
\* score or silently dropped from the table.
C3_MalformedLabelRejected ==
    (UserList /\ pc # "start") =>
        /\ Len(df) = Len(split(dms_mutation.text))
        /\ \A m \in 1..Len(model_location) : \A k \in 1..Len(rows_scored(m)) :
               WellFormed(df[k])

\* C4: pseudo-perplexity scoring of one mutation on a sequence of length L
\* substitutes the mutant symbol and runs exactly L masked forward passes:
\* the pass for position k masks token k+1 (after the begin marker) and
\* contributes the log-probability of the mutated sequence's symbol at k;
\* the score is the sum of the L values.
C4_PpplMasksEveryPosition ==
    \A m \in 1..Len(model_location) :
        (/\ scoring_strategy = "pseudo-ppl"
         /\ \A k \in 1..Len(rows_scored(m)) : Agrees(df[k], sequence)) =>
            LET L == Len(sequence)
                loc == model_location[m]
                mutated(k) == [sequence EXCEPT ![LabelPos(df[k]).val] = LabelMt(df[k])]
                toks(k) == batch_converter(mutated(k), loc)
            IN  /\ Len(passes_of(m)) = L * Len(rows_scored(m))
                /\ \A k \in 1..Len(rows_scored(m)) :
                       /\ \A q \in 1..L :
                              /\ passes_of(m)[L * (k - 1) + q].mask = q
                              /\ passes_of(m)[L * (k - 1) + q].tokens = masked(toks(k), q)
                       /\ rows_scored(m)[k] =
                              Sum([q \in 1..L |->
                                      log_softmax(loc, masked(toks(k), q), q,
                                                  get_idx(mutated(k)[q]))])

\* the masking loop of a single-sequence model m has run to its end
MaskingDone(m) ==
    /\ scoring_strategy = "masked-marginals"
    /\ ~is_msa(model_location[m])
    /\ \/ m <= Len(columns)
       \/ m = mi /\ pc = "score"
       \/ m = mi /\ RowFailed

\* C5, as claimed: masked-marginal on a single-sequence model performs
\* exactly L forward passes per model, one per sequence position.
C5_ExactlyLenPasses ==
    \A m \in 1..Len(model_location) :
        MaskingDone(m) => Len(passes_of(m)) = Len(sequence)

\* C5, amended: masked-marginal on a single-sequence model performs exactly
\* one forward pass per token of the encoded sequence (the L positions, the
\* begin marker and, where the alphabet appends one, the end marker), pass i
\* with token i masked, all before the first label is scored and whatever
\* the labels are; a scored label at position p is scored from the cached
\* row of token p - offset + 1 (from the end when negative), the row
\* obtained with that token masked.
C5_OnePassPerToken ==
    \A m \in 1..Len(model_location) :
        LET loc == model_location[m]
            toks == batch_converter(sequence, loc)
            T == Len(toks)
        IN  /\ (scoring_strategy = "masked-marginals" /\ ~is_msa(loc)
                    /\ rows_scored(m) # <<>>) => MaskingDone(m)
            /\ (m = mi /\ pc = "mask") => col = <<>>
            /\ MaskingDone(m) =>
                   /\ passes_of(m) =
                          [i \in 1..T |-> [model |-> m, tokens |-> masked(toks, i - 1),
                                           mask |-> i - 1]]
                   /\ \A k \in 1..Len(rows_scored(m)) :
                          LET t == LabelPos(df[k]).val - offset_idx + 1
                              r == IF t >= 0 THEN t ELSE T + t
                          IN  rows_scored(m)[k] =
                                  log_softmax(loc, masked(toks, r), r, get_idx(LabelMt(df[k])))
                                  - log_softmax(loc, masked(toks, r), r, get_idx(LabelWt(df[k])))

\* C5 witness: a masked-marginal run over two single-sequence models that
\* wrote the scores of two labels
C5_Witness ==
    /\ scoring_strategy = "masked-marginals"
    /\ model_location = <<ESM1, ESM1B>>
    /\ table.written
    /\ UserList
    /\ Len(df) = 2
    /\ Len(passes_of(1)) = Len(sequence) + 1
    /\ Len(passes_of(2)) = Len(sequence) + 2

\* C6: for every strategy, if some label disagrees with the sequence the run
\* fails with the wild-type-mismatch error before any scoring compute: no
\* forward pass has been issued and no other row has a score when the error
\* is raised.
C6_MismatchBeforeAnyCompute ==
    /\ error = WildtypeMismatch => passes = <<>> /\ columns = <<>> /\ col = <<>>
    /\ (pc # "start" /\ dms_mutation.given
            /\ \E k \in 1..Len(df) : ~Agrees(df[k], sequence)) =>
           passes = <<>> /\ columns = <<>> /\ col = <<>>

\* C7: if any model of the list is an MSATransformer and the strategy is not
\* masked-marginal, the run aborts at startup: before any forward pass of
\* any model of the list and before any score column.
C7_MSAStrategyCheckedAtStartup ==
    (scoring_strategy # "masked-marginals"
        /\ \E m \in 1..Len(model_location) : is_msa(model_location[m])) =>
        passes = <<>> /\ columns = <<>> /\ col = <<>> /\ ~table.written

\* C8: for an exhaustive scan of S, the reshaped matrix has len(S) rows and
\* 20 columns, row r labelled S[r] + str(r+1), column c labelled
\* alphabet[c], and entry (r, c) is the score the flat table holds for the
\* label S[r] + str(r+1) + alphabet[c].
C8_MatrixMatchesTable ==
    matrix.written =>
        LET L == Len(sequence)
            A == Len(aas)
        IN  /\ table.written
            /\ Len(table.rows) = L * A
            /\ Len(matrix.d) = L
            /\ Len(matrix.index) = L
            /\ matrix.columns = aas
            /\ \A r \in 1..L :
                   /\ Len(matrix.d[r]) = A
                   /\ matrix.index[r] = <<sequence[r]>> \o str(r)
                   /\ \A c \in 1..A :
                          LET label == <<sequence[r]>> \o str(r) \o <<aas[c]>>
                              held == {k \in 1..Len(table.rows) : table.rows[k][1] = label}
                          IN  /\ Cardinality(held) = 1
                              /\ \A k \in held :
                                     /\ str(matrix.d[r][c]) = table.rows[k][2]
                                     /\ matrix.d[r][c] = columns[1][k]

\* C8 witness: the matrix of a three-symbol sequence, two of its rows
\* differing
C8_Witness ==
    /\ matrix.written
    /\ sequence = <<"A", "C", "A">>
    /\ matrix.index = << <<"A", "1">>, <<"C", "2">>, <<"A", "3">> >>
    /\ matrix.d[1] # matrix.d[3]

\* C9: a run with a user-supplied list of n valid labels that gets to write
\* its table writes exactly n score rows, in the user's order, and never the
\* matrix, whatever n is (n = 20*len(S) included); the matrix is written
\* only when the labels were enumerated exhaustively.
C9_UserListFlatTableOnly ==
    /\ matrix.written => dms_mutation.given /\ dms_mutation.text = <<>>
    /\ UserList => ~matrix.written
    /\ (UserList /\ table.written
            /\ \A k \in 1..Len(split(dms_mutation.text)) :
                   Agrees(split(dms_mutation.text)[k], sequence)) =>
           LET entries == split(dms_mutation.text)
           IN  /\ Len(table.rows) = Len(entries)
               /\ \A k \in 1..Len(entries) :
                      /\ table.rows[k][1] = entries[k]
                      /\ Len(table.rows[k]) = 1 + Len(model_location)

\* C9 witness: a finished run whose user list has 20*len(S) valid labels
C9_Witness ==
    /\ pc = "done"
    /\ UserList
    /\ Len(split(dms_mutation.text)) = Len(aas) * Len(sequence)
    /\ Len(table.rows) = Len(aas) * Len(sequence)
    /\ ~matrix.written

\* C10: a run started without --dms-mutation takes the exhaustive branch: it
\* enumerates all 20*len(S) labels, scores them and writes table and matrix,
\* as a run given the empty list does.
C10_OmittedListIsExhaustive ==
    (~dms_mutation.given /\ pc # "start") =>
        /\ error # "TypeError"
        /\ Len(df) = Len(aas) * Len(sequence)
        /\ pc = "done" => table.written /\ matrix.written

====
